---- MODULE Spec2Model ----
(***************************************************************************)
(* Model of the pipeline orchestrator src/main.py (function go).           *)
(*                                                                         *)
(* A string is modelled as a sequence of symbols.  A symbol is either a    *)
(* whole word (a step identifier, "all", "bogus_step"), a comma or a       *)
(* space, so that str.split(",") and list membership are computed the way  *)
(* Python computes them: "download" is <<"download">> and                  *)
(* " download" is <<" ", "download">>, which is a different string.        *)
(***************************************************************************)
EXTENDS Integers, Sequences, FiniteSets, TLC

VARIABLES
    config,        \* the loaded DictConfig: [steps, missing]; read-only
    pc,            \* position of go() in its code
    i,             \* index of the if-statement of the chain being evaluated
    environ,       \* os.environ assignments made so far, in order
    active_steps,  \* the list active_steps (a sequence of strings)
    tmp_dir,       \* "none" | "exists" | "removed"
    rf_config,     \* the local rf_config (a path), NoPath until assigned
    cwd,           \* the process working directory
    files,         \* files written by go(): set of [dir, name, content]
    invocations,   \* mlflow.run calls made so far, in order
    succeeded,     \* steps whose mlflow.run call returned
    artifacts,     \* artifacts registered by the steps that have succeeded
    error,         \* the exception propagating out of go(), or NoError
    exit_code      \* -1 while the process runs, then the exit status

vars == <<config, pc, i, environ, active_steps, tmp_dir, rf_config, cwd, files,
          invocations, succeeded, artifacts, error, exit_code>>

----------------------------------------------------------------------------
(* Bounds of the model *)

MaxTokens == 2

----------------------------------------------------------------------------
(* Strings *)

Str(w) == <<w>>

\* variant: test_regression_model is part of the list used for "all"
_stepsWithTest ==
    << Str("download"), Str("basic_cleaning"), Str("data_check"),
       Str("data_split"), Str("train_random_forest"),
       Str("test_regression_model") >>

\* src/main.py:20-27
_steps == << Str("download"), Str("basic_cleaning"), Str("data_check"),
             Str("data_split"), Str("train_random_forest") >>

\* variant: the if-statements of data_split and download exchanged
ChainSwapped == << "data_split", "basic_cleaning", "data_check", "download",
                   "train_random_forest", "test_regression_model" >>

\* variant: the last if-statement tests "download" again
ChainRepeated == << "download", "basic_cleaning", "data_check", "data_split",
                    "train_random_forest", "download" >>

\* the order of the if-statements of go(), src/main.py:54-143
Chain == << "download", "basic_cleaning", "data_check", "data_split",
            "train_random_forest", "test_regression_model" >>

\* str.split(sep) of Python: the pieces between the separators; a string
\* without separator (the empty string included) gives a one-element list
RECURSIVE Split(_, _)
Split(s, sep) ==
    IF \A k \in 1..Len(s) : s[k] # sep
    THEN << s >>
    ELSE LET p == CHOOSE k \in 1..Len(s) :
                      s[k] = sep /\ \A j \in 1..(k-1) : s[j] # sep
         IN  << SubSeq(s, 1, p-1) >> \o Split(SubSeq(s, p+1, Len(s)), sep)

\* x in list
In(x, list) == \E k \in 1..Len(list) : list[k] = x

\* variant: the sentinel "all" is not recognised
ActiveStepsNoSentinel(steps_par) == Split(steps_par, ",")

\* variant: an empty expression is taken for "all"
ActiveStepsEmptyIsAll(steps_par) ==
    IF steps_par # Str("all") /\ steps_par # << >>
    THEN Split(steps_par, ",") ELSE _steps

\* src/main.py:49
ActiveSteps(steps_par) ==
    IF steps_par # Str("all") THEN Split(steps_par, ",") ELSE _steps

----------------------------------------------------------------------------
(* Configuration and parameter maps *)

\* A parameter value: a configuration value (named by its dotted path, the
\* value itself is opaque), a literal of the code, or a filesystem path
Cfg(p)     == [kind |-> "cfg",  dir |-> "", v |-> p]
Lit(s)     == [kind |-> "lit",  dir |-> "", v |-> s]
Path(d, n) == [kind |-> "path", dir |-> d,  v |-> n]

\* the configuration paths read to build the project URI of a step
\* (first argument of mlflow.run), src/main.py:57
UriReads(step) ==
    IF step = "download" THEN << "main.components_repository" >> ELSE << >>

\* variant: the two values of test_regression_model exchanged
ParametersExchanged(step, rf) ==
    CASE step = "download" ->                       \* src/main.py:60-65
           << <<"sample", Cfg("etl.sample")>>,
              <<"artifact_name", Lit("sample.csv")>>,
              <<"artifact_type", Lit("raw_data")>>,
              <<"artifact_description", Lit("Raw file as downloaded")>> >>
      [] step = "basic_cleaning" ->                 \* src/main.py:75-83
           << <<"input_artifact", Cfg("parameters.basic_cleaning.input_artifact")>>,
              <<"output_artifact", Cfg("parameters.basic_cleaning.output_artifact")>>,
              <<"artifact_type", Cfg("parameters.basic_cleaning.artifact_type")>>,
              <<"artifact_description", Cfg("parameters.basic_cleaning.artifact_description")>>,
              <<"min_price", Cfg("etl.min_price")>>,
              <<"max_price", Cfg("etl.max_price")>> >>
      [] step = "data_check" ->                     \* src/main.py:92-98
           << <<"csv", Cfg("parameters.data_check.csv")>>,
              <<"ref", Cfg("parameters.data_check.ref")>>,
              <<"kl_threshold", Cfg("data_check.kl_threshold")>>,
              <<"min_price", Cfg("etl.min_price")>>,
              <<"max_price", Cfg("etl.max_price")>> >>
      [] step = "data_split" ->                     \* src/main.py:107-112
           << <<"input", Cfg("parameters.data_split.input")>>,
              <<"test_size", Cfg("modeling.test_size")>>,
              <<"random_seed", Cfg("modeling.random_seed")>>,
              <<"stratify_by", Cfg("modeling.stratify_by")>> >>
      [] step = "train_random_forest" ->            \* src/main.py:129-139
           << <<"trainval_artifact", Cfg("parameters.train_random_forest.trainval_artifact")>>,
              <<"val_size", Cfg("modeling.val_size")>>,
              <<"random_seed", Cfg("modeling.random_seed")>>,
              <<"stratify_by", Cfg("modeling.stratify_by")>>,
              <<"rf_config", rf>>,
              <<"max_tfidf_features", Cfg("modeling.max_tfidf_features")>>,
              <<"output_artifact", Cfg("parameters.train_random_forest.output_artifact")>> >>
      [] step = "test_regression_model" ->          \* src/main.py:149-152
           << <<"mlflow_model", Cfg("parameters.test_regression_model.test_dataset")>>,
              <<"test_dataset", Cfg("parameters.test_regression_model.mlflow_model")>> >>

\* the parameters= dictionary of each mlflow.run call, in evaluation order;
\* rf is the value of the local rf_config
Parameters(step, rf) ==
    CASE step = "download" ->                       \* src/main.py:60-65
           << <<"sample", Cfg("etl.sample")>>,
              <<"artifact_name", Lit("sample.csv")>>,
              <<"artifact_type", Lit("raw_data")>>,
              <<"artifact_description", Lit("Raw file as downloaded")>> >>
      [] step = "basic_cleaning" ->                 \* src/main.py:75-83
           << <<"input_artifact", Cfg("parameters.basic_cleaning.input_artifact")>>,
              <<"output_artifact", Cfg("parameters.basic_cleaning.output_artifact")>>,
              <<"artifact_type", Cfg("parameters.basic_cleaning.artifact_type")>>,
              <<"artifact_description", Cfg("parameters.basic_cleaning.artifact_description")>>,
              <<"min_price", Cfg("etl.min_price")>>,
              <<"max_price", Cfg("etl.max_price")>> >>
      [] step = "data_check" ->                     \* src/main.py:92-98
           << <<"csv", Cfg("parameters.data_check.csv")>>,
              <<"ref", Cfg("parameters.data_check.ref")>>,
              <<"kl_threshold", Cfg("data_check.kl_threshold")>>,
              <<"min_price", Cfg("etl.min_price")>>,
              <<"max_price", Cfg("etl.max_price")>> >>
      [] step = "data_split" ->                     \* src/main.py:107-112
           << <<"input", Cfg("parameters.data_split.input")>>,
              <<"test_size", Cfg("modeling.test_size")>>,
              <<"random_seed", Cfg("modeling.random_seed")>>,
              <<"stratify_by", Cfg("modeling.stratify_by")>> >>
      [] step = "train_random_forest" ->            \* src/main.py:129-139
           << <<"trainval_artifact", Cfg("parameters.train_random_forest.trainval_artifact")>>,
              <<"val_size", Cfg("modeling.val_size")>>,
              <<"random_seed", Cfg("modeling.random_seed")>>,
              <<"stratify_by", Cfg("modeling.stratify_by")>>,
              <<"rf_config", rf>>,
              <<"max_tfidf_features", Cfg("modeling.max_tfidf_features")>>,
              <<"output_artifact", Cfg("parameters.train_random_forest.output_artifact")>> >>
      [] step = "test_regression_model" ->          \* src/main.py:149-152
           << <<"mlflow_model", Cfg("parameters.test_regression_model.mlflow_model")>>,
              <<"test_dataset", Cfg("parameters.test_regression_model.test_dataset")>> >>

\* the arguments the test_regression_model component requires
\* (src/components/test_regression_model/run.py:74-86)
RunArgs == { "mlflow_model", "test_dataset" }

IsCfg(kv) == kv[2].kind = "cfg"

RECURSIVE PathsOf(_)
PathsOf(kvs) ==
    IF kvs = << >> THEN << >> ELSE << Head(kvs)[2].v >> \o PathsOf(Tail(kvs))

\* the configuration paths a step's mlflow.run call reads, in the order
\* Python evaluates them
Reads(step) ==
    UriReads(step) \o PathsOf(SelectSeq(Parameters(step, Path("", "")), IsCfg))

\* the lookups made before the with-block, src/main.py:44-48
MainPaths == { "main.project_name", "main.experiment_name", "main.steps" }

\* the sub-tree serialized for train_random_forest, src/main.py:121
RfPath == "modeling.random_forest"

Range(s) == { s[k] : k \in 1..Len(s) }

AllPaths ==
    MainPaths \cup { RfPath } \cup UNION { Range(Reads(Chain[k])) : k \in 1..Len(Chain) }

\* variant: an absent path yields None instead of raising
FirstMissingNone(paths, missing) == ""

\* config[...][...] on the struct-mode DictConfig Hydra passes to go():
\* the first absent path of a sequence of lookups, or "" when all resolve
RECURSIVE FirstMissing(_, _)
FirstMissing(paths, missing) ==
    IF paths = << >> THEN ""
    ELSE IF Head(paths) \in missing THEN Head(paths)
    ELSE FirstMissing(Tail(paths), missing)

----------------------------------------------------------------------------
(* Inputs: selection expressions and configurations *)

Words == { "download", "basic_cleaning", "data_check", "data_split",
           "train_random_forest", "test_regression_model", "all",
           "bogus_step" }

\* a token as a user may type it: empty, a word, or a word after a space
Tokens == { << >> } \cup { <<w>> : w \in Words } \cup { <<" ", w>> : w \in Words }

RECURSIVE Exprs(_)
Exprs(n) ==
    IF n = 1 THEN Tokens
    ELSE Exprs(n-1) \cup { e \o <<",">> \o t : e \in Exprs(n-1), t \in Tokens }

\* a complete configuration, or one with a single absent path
Missings == { {} } \cup { {p} : p \in AllPaths }

NoPath == Path("", "")

\* the directory tempfile.TemporaryDirectory() creates (src/main.py:52); it
\* is a fresh directory, distinct from the working directory
TmpPath == "tmp_dir"

NoError == [kind |-> "none", at |-> ""]
MissingConfigKey(p) == [kind |-> "MissingConfigKey", at |-> p]
StepError(step) == [kind |-> "StepError", at |-> step]

Init ==
    /\ config \in [steps : Exprs(MaxTokens), missing : Missings]
    /\ pc = "env"
    /\ i = 0
    /\ environ = << >>
    /\ active_steps = << >>
    /\ tmp_dir = "none"
    /\ rf_config = NoPath
    /\ cwd = "run_dir"
    /\ files = {}
    /\ invocations = << >>
    /\ succeeded = {}
    /\ artifacts = {}
    /\ error = NoError
    /\ exit_code = -1

----------------------------------------------------------------------------
(* Operations of go() *)

\* the step of the k-th if-statement is in active_steps
Selected(k) == In(Str(Chain[k]), active_steps)

\* control after the body of the k-th if-statement: the next if-statement,
\* or the end of the with-block
After(k) ==
    IF k < Len(Chain) THEN [pc |-> "if", i |-> k + 1]
    ELSE [pc |-> "leave", i |-> k]

\* variant: the failure is caught and the chain continues
RunFailedSwallowed(k) ==
    [pc |-> After(k).pc, i |-> After(k).i, error |-> StepError(Chain[k])]

\* mlflow.run (synchronous) raises when the run fails and go() has no
\* try/except: the exception leaves the if-chain
RunFailed(k) == [pc |-> "raise", i |-> k, error |-> StepError(Chain[k])]

\* variant: the directory is removed on the normal path only
CleanupOnSuccessOnly(err) == IF err = NoError THEN "removed" ELSE "exists"

\* variant: the directory is never removed
CleanupNever(err) == "exists"

\* TemporaryDirectory.__exit__: the directory is removed whether or not an
\* exception is propagating (err)
Cleanup(err) == "removed"

\* os.path.abspath(name): name joined to the working directory
AbsPath(dir, name) == Path(dir, name)

\* hydra.main: a task function that returns gives status 0, an exception in
\* it is reported and the process exits with status 1
ExitStatus(err) == IF err = NoError THEN 0 ELSE 1

\* the artifacts an invocation names as its outputs (parameters
\* artifact_name and output_artifact, src/main.py:62, 77, 137), which the
\* step registers when it succeeds
Produced(inv) ==
    LET IsOutput(kv) == kv[1] \in { "artifact_name", "output_artifact" }
        outs == SelectSeq(inv.parameters, IsOutput)
    IN  { outs[k][2] : k \in 1..Len(outs) }

\* variant: only WANDB_PROJECT is assigned
SetEnvProjectOnly ==
    /\ pc = "env"
    /\ LET m == FirstMissing(<<"main.project_name", "main.experiment_name">>,
                             config.missing)
       IN  IF m = ""
           THEN /\ environ' = environ \o <<"WANDB_PROJECT">>
                /\ pc' = "select"
                /\ error' = error
           ELSE /\ environ' = IF m = "main.experiment_name"
                              THEN environ \o <<"WANDB_PROJECT">> ELSE environ
                /\ pc' = "propagate"
                /\ error' = MissingConfigKey(m)
    /\ UNCHANGED <<config, artifacts, i, active_steps, tmp_dir, rf_config, cwd, files,
                   invocations, succeeded, exit_code>>

\* src/main.py:44-45
SetEnv ==
    /\ pc = "env"
    /\ LET m == FirstMissing(<<"main.project_name", "main.experiment_name">>,
                             config.missing)
       IN  IF m = ""
           THEN /\ environ' = environ \o <<"WANDB_PROJECT", "WANDB_RUN_GROUP">>
                /\ pc' = "select"
                /\ error' = error
           ELSE /\ environ' = IF m = "main.experiment_name"
                              THEN environ \o <<"WANDB_PROJECT">> ELSE environ
                /\ pc' = "propagate"
                /\ error' = MissingConfigKey(m)
    /\ UNCHANGED <<config, artifacts, i, active_steps, tmp_dir, rf_config, cwd, files,
                   invocations, succeeded, exit_code>>

\* src/main.py:48-49
SelectSteps ==
    /\ pc = "select"
    /\ IF "main.steps" \in config.missing
       THEN /\ pc' = "propagate"
            /\ error' = MissingConfigKey("main.steps")
            /\ active_steps' = active_steps
       ELSE /\ pc' = "with"
            /\ error' = error
            /\ active_steps' = ActiveSteps(config.steps)
    /\ UNCHANGED <<config, artifacts, i, environ, tmp_dir, rf_config, cwd, files,
                   invocations, succeeded, exit_code>>

\* variant: the if-chain is entered without creating the directory
EnterWithNoDir ==
    /\ pc = "with"
    /\ tmp_dir' = tmp_dir
    /\ pc' = "if"
    /\ i' = 1
    /\ UNCHANGED <<config, artifacts, environ, active_steps, rf_config, cwd, files,
                   invocations, succeeded, error, exit_code>>

\* src/main.py:52, entering the with-block
EnterWith ==
    /\ pc = "with"
    /\ tmp_dir' = "exists"
    /\ pc' = "if"
    /\ i' = 1
    /\ UNCHANGED <<config, artifacts, environ, active_steps, rf_config, cwd, files,
                   invocations, succeeded, error, exit_code>>

\* an if-statement of the chain whose step is not in active_steps
\* (src/main.py:54, 69, 86, 101, 114, 143)
Skip ==
    /\ pc = "if"
    /\ ~Selected(i)
    /\ pc' = After(i).pc
    /\ i' = After(i).i
    /\ UNCHANGED <<config, artifacts, environ, active_steps, tmp_dir, rf_config, cwd,
                   files, invocations, succeeded, error, exit_code>>

\* variant: the path is computed but the sub-tree is not dumped
MaterializeNoWrite ==
    /\ pc = "if"
    /\ Selected(i)
    /\ Chain[i] = "train_random_forest"
    /\ LET rf == AbsPath(cwd, "rf_config.json")
           others == { f \in files : ~(f.dir = rf.dir /\ f.name = rf.v) }
       IN  /\ rf_config' = rf
           /\ IF RfPath \in config.missing
              THEN /\ files' = others \cup
                          { [dir |-> rf.dir, name |-> rf.v, content |-> ""] }
                   /\ pc' = "raise"
                   /\ error' = MissingConfigKey(RfPath)
              ELSE /\ files' = files
                   /\ pc' = "call"
                   /\ error' = error
    /\ UNCHANGED <<config, artifacts, i, environ, active_steps, tmp_dir, cwd,
                   invocations, succeeded, exit_code>>

\* src/main.py:114-122: rf_config.json is opened for writing (created or
\* truncated), then the sub-tree is looked up and dumped
Materialize ==
    /\ pc = "if"
    /\ Selected(i)
    /\ Chain[i] = "train_random_forest"
    /\ LET rf == AbsPath(cwd, "rf_config.json")
           others == { f \in files : ~(f.dir = rf.dir /\ f.name = rf.v) }
       IN  /\ rf_config' = rf
           /\ IF RfPath \in config.missing
              THEN /\ files' = others \cup
                          { [dir |-> rf.dir, name |-> rf.v, content |-> ""] }
                   /\ pc' = "raise"
                   /\ error' = MissingConfigKey(RfPath)
              ELSE /\ files' = others \cup
                          { [dir |-> rf.dir, name |-> rf.v, content |-> RfPath] }
                   /\ pc' = "call"
                   /\ error' = error
    /\ UNCHANGED <<config, artifacts, i, environ, active_steps, tmp_dir, cwd,
                   invocations, succeeded, exit_code>>

\* the mlflow.run call of the i-th if-statement: the arguments are
\* evaluated (a missing path raises), then the run starts
\* (src/main.py:56-66, 71-84, 88-99, 103-113, 125-140, 145-153)
Invoke ==
    /\ \/ pc = "call"
       \/ pc = "if" /\ Selected(i) /\ Chain[i] # "train_random_forest"
    /\ LET m == FirstMissing(Reads(Chain[i]), config.missing)
       IN  IF m = ""
           THEN /\ invocations' = Append(invocations,
                      [step |-> Chain[i],
                       parameters |-> Parameters(Chain[i], rf_config)])
                /\ pc' = "running"
                /\ error' = error
           ELSE /\ invocations' = invocations
                /\ pc' = "raise"
                /\ error' = MissingConfigKey(m)
    /\ UNCHANGED <<config, artifacts, i, environ, active_steps, tmp_dir, rf_config, cwd,
                   files, succeeded, exit_code>>

\* mlflow.run returns: the step succeeded
RunnerSucceeds ==
    /\ pc = "running"
    /\ succeeded' = succeeded \cup { Chain[i] }
    /\ artifacts' = artifacts \cup Produced(invocations[Len(invocations)])
    /\ pc' = After(i).pc
    /\ i' = After(i).i
    /\ UNCHANGED <<config, environ, active_steps, tmp_dir, rf_config, cwd,
                   files, invocations, error, exit_code>>

\* variant: on failure the record of the earlier steps is discarded
RunnerFailsRollback ==
    /\ pc = "running"
    /\ pc' = RunFailed(i).pc
    /\ i' = RunFailed(i).i
    /\ error' = RunFailed(i).error
    /\ succeeded' = {}
    /\ artifacts' = {}
    /\ UNCHANGED <<config, environ, active_steps, tmp_dir, rf_config, cwd,
                   files, invocations, exit_code>>

\* mlflow.run raises: the step failed
RunnerFails ==
    /\ pc = "running"
    /\ pc' = RunFailed(i).pc
    /\ i' = RunFailed(i).i
    /\ error' = RunFailed(i).error
    /\ UNCHANGED <<config, artifacts, environ, active_steps, tmp_dir, rf_config, cwd,
                   files, invocations, succeeded, exit_code>>

\* leaving the with-block, normally or by an exception (src/main.py:52)
ExitWith ==
    /\ pc \in { "leave", "raise" }
    /\ tmp_dir' = Cleanup(error)
    /\ files' = IF Cleanup(error) = "removed"
                THEN { f \in files : f.dir # TmpPath } ELSE files
    /\ pc' = IF pc = "leave" THEN "return" ELSE "propagate"
    /\ UNCHANGED <<config, artifacts, i, environ, active_steps, rf_config, cwd,
                   invocations, succeeded, error, exit_code>>

\* go() returns or raises into hydra.main and the process ends
\* (src/main.py:31, 156-157)
Terminate ==
    /\ pc \in { "return", "propagate" }
    /\ exit_code' = ExitStatus(error)
    /\ pc' = "done"
    /\ UNCHANGED <<config, artifacts, i, environ, active_steps, tmp_dir, rf_config, cwd,
                   files, invocations, succeeded, error>>

Next ==
    \/ SetEnv
    \/ SelectSteps
    \/ EnterWith
    \/ Skip
    \/ Materialize
    \/ Invoke
    \/ RunnerSucceeds
    \/ RunnerFails
    \/ ExitWith
    \/ Terminate

Spec == Init /\ [][Next]_vars

\* go() is a sequential program that keeps executing, and every mlflow.run
\* call is taken to return or raise eventually
LiveSpec == Init /\ [][Next]_vars /\ WF_vars(Next)

----------------------------------------------------------------------------
(* Vocabulary of the properties *)

\* the steps whose runner was invoked, in invocation order
InvokedSteps == [k \in 1..Len(invocations) |-> invocations[k].step]

\* the comma-separated tokens of the selection expression
TokensOf(expr) == Split(expr, ",")

IsRegistered(tok) == In(tok, _steps)

\* the selection is a comma-separated list of registered identifiers
ValidSubset(expr) ==
    /\ expr # Str("all")
    /\ \A k \in 1..Len(TokensOf(expr)) : IsRegistered(TokensOf(expr)[k])

\* the registered identifiers named by the tokens, in registry order
RECURSIVE Names(_)
Names(list) ==
    IF list = << >> THEN << >> ELSE << Head(list)[1] >> \o Names(Tail(list))

NamedInRegistryOrder(expr) ==
    LET Named(s) == In(s, TokensOf(expr)) IN Names(SelectSeq(_steps, Named))

\* a token without its surrounding spaces
RECURSIVE Trim(_)
Trim(tok) ==
    IF tok # << >> /\ Head(tok) = " " THEN Trim(Tail(tok))
    ELSE IF tok # << >> /\ tok[Len(tok)] = " " THEN Trim(SubSeq(tok, 1, Len(tok) - 1))
    ELSE tok

\* a token that names no step of the program, even after trimming
IsUnknown(tok) ==
    /\ Trim(tok) # << >>
    /\ \A k \in 1..Len(Chain) : Trim(tok) # Str(Chain[k])

HasUnknownToken(expr) ==
    /\ expr # Str("all")
    /\ \E k \in 1..Len(TokensOf(expr)) : IsUnknown(TokensOf(expr)[k])

\* the positions of the chain whose step is selected and precede position n
SelectedBefore(n) ==
    LET Sel(k) == k < n /\ Selected(k)
    IN  SelectSeq([k \in 1..Len(Chain) |-> k], Sel)

StepsBefore(n) == [k \in 1..Len(SelectedBefore(n)) |-> Chain[SelectedBefore(n)[k]]]

Finished == pc = "done"

\* the assignment of active_steps (src/main.py:49) has been executed
SelectionMade ==
    /\ pc \notin { "env", "select" }
    /\ ~(error.kind = "MissingConfigKey" /\ error.at \in MainPaths)

----------------------------------------------------------------------------
(* Properties *)

\* C1: for a selection other than "all" whose tokens are all registered
\* identifiers, a run in which every step succeeds has invoked exactly the
\* named steps, in registry order, whatever the order of the tokens.
C1_RegistryOrder ==
    (Finished /\ error = NoError /\ ValidSubset(config.steps))
        => InvokedSteps = NamedInRegistryOrder(config.steps)

C1_Witness ==
    /\ Finished /\ error = NoError
    /\ config.steps = << "data_split", ",", "download" >>
    /\ InvokedSteps = << "download", "data_split" >>

\* C2: once the runner invocation of a step has failed, no further step is
\* invoked (the failed one included), the failure stays the outcome of the
\* run and the run only unwinds to its end.
C2_AbortOnFailure ==
    [][ error.kind = "StepError"
          => /\ invocations' = invocations
             /\ error' = error
             /\ pc' \in { "propagate", "done" } ]_vars

C2_Witness ==
    /\ Finished /\ error.kind = "StepError"
    /\ \E k \in 1..Len(Chain) : k > i /\ Selected(k)
    /\ InvokedSteps[Len(InvokedSteps)] = error.at

\* C3: a selection with a token that is not a step identifier fails with
\* UnknownStepIdentifier and no runner invocation is made.
C3_UnknownRejected ==
    (HasUnknownToken(config.steps) /\ "main.steps" \notin config.missing)
        => /\ invocations = << >>
           /\ (Finished /\ config.missing = {})
                 => error.kind = "UnknownStepIdentifier"

\* C4: with the selection "all" the active steps are the registered list,
\* and a run in which every step succeeds has invoked each registered step
\* once, in registry order.
C4_AllIsRegistry ==
    (config.steps = Str("all") /\ SelectionMade)
        => /\ active_steps = << <<"download">>, <<"basic_cleaning">>,
                                <<"data_check">>, <<"data_split">>,
                                <<"train_random_forest">> >>
           /\ (Finished /\ error = NoError)
                 => InvokedSteps = << "download", "basic_cleaning", "data_check",
                                      "data_split", "train_random_forest" >>

C4_Witness ==
    /\ Finished /\ error = NoError
    /\ config.steps = Str("all")
    /\ Len(invocations) = 5

\* C5: once the with-block has been left, by success, by a failed step or
\* by a configuration error raised inside it, the scratch directory does
\* not exist.
C5_WorkspaceRemoved ==
    pc \in { "return", "propagate", "done" } => tmp_dir # "exists"

C5_Witness ==
    /\ Finished /\ error.kind = "StepError"
    /\ tmp_dir = "removed"

\* C6: every file the orchestrator writes lies in the scratch directory of
\* the run, so none is left once the directory is removed.
C6_ScratchFileInWorkspace ==
    /\ \A f \in files : f.dir = TmpPath
    /\ tmp_dir = "removed" => files = {}

\* C7: a step whose configuration path is absent raises MissingConfigKey
\* before its runner is invoked; the selected steps before it have all been
\* invoked and have succeeded, and no later step is invoked.
C7_MissingKeyFailsFast ==
    /\ \A k \in 1..Len(invocations) :
          /\ Range(Reads(invocations[k].step)) \cap config.missing = {}
          /\ invocations[k].step = "train_random_forest" => RfPath \notin config.missing
    /\ (error.kind = "MissingConfigKey" /\ error.at \notin MainPaths)
          => /\ error.at \in Range(Reads(Chain[i])) \cup { RfPath }
             /\ InvokedSteps = StepsBefore(i)
             /\ succeeded = Range(StepsBefore(i))
             /\ pc \in { "raise", "propagate", "done" }

C7_Witness ==
    /\ Finished /\ error.kind = "MissingConfigKey"
    /\ Len(invocations) >= 2
    /\ \E k \in 1..Len(Chain) : k > i /\ Selected(k)

\* C8: tokens are matched after trimming their surrounding spaces: a step
\* is active exactly when its identifier is one of the trimmed tokens.
C8_TrimmedTokens ==
    (SelectionMade /\ config.steps # Str("all"))
        => \A k \in 1..Len(Chain) :
              Selected(k) <=>
                 \E j \in 1..Len(TokensOf(config.steps)) :
                     Trim(TokensOf(config.steps)[j]) = Str(Chain[k])

\* C9: the exit status is 0 exactly when no step failed and no
\* configuration error (missing key, unknown step identifier) occurred.
C9_ExitStatus ==
    Finished =>
        (exit_code # 0 <=>
            \/ error.kind \in { "StepError", "MissingConfigKey" }
            \/ ("main.steps" \notin config.missing /\ HasUnknownToken(config.steps)))

\* C10: with an empty selection expression (and the pipeline-wide settings
\* present) no step is active, no runner is invoked, no file is written and
\* the run ends with status 0.
C10_EmptySelection ==
    (config.steps = << >> /\ config.missing \cap MainPaths = {})
        => /\ invocations = << >>
           /\ files = {}
           /\ error = NoError
           /\ SelectionMade => \A k \in 1..Len(Chain) : ~Selected(k)
           /\ Finished => exit_code = 0

C10_Witness ==
    /\ Finished /\ exit_code = 0
    /\ config.steps = << >>
    /\ invocations = << >> /\ files = {}

\* the value passed for parameter name in an invocation
ParamValues(inv, name) ==
    { inv.parameters[k][2] : k \in { j \in 1..Len(inv.parameters) :
                                        inv.parameters[j][1] = name } }

ParamNames(inv) == { inv.parameters[k][1] : k \in 1..Len(inv.parameters) }

\* C11: the runner of test_regression_model is invoked with exactly the
\* two parameters mlflow_model and test_dataset (those its component
\* requires), each holding the configuration value of
\* parameters.test_regression_model.<name>, unchanged.
C11_TestModelParameters ==
    \A k \in 1..Len(invocations) :
        invocations[k].step = "test_regression_model"
           => /\ Len(invocations[k].parameters) = 2
              /\ ParamNames(invocations[k]) = RunArgs
              /\ \A n \in RunArgs :
                    ParamValues(invocations[k], n) =
                       { [kind |-> "cfg", dir |-> "",
                          v |-> IF n = "mlflow_model"
                                THEN "parameters.test_regression_model.mlflow_model"
                                ELSE "parameters.test_regression_model.test_dataset"] }

C11_Witness ==
    /\ Finished /\ error = NoError
    /\ config.steps = Str("test_regression_model")
    /\ InvokedSteps = << "test_regression_model" >>

\* C12: when the runner of train_random_forest is invoked, the
\* hyperparameter file holds the serialized sub-tree and the rf_config
\* parameter is its path; the file is written only at the
\* train_random_forest step, when every earlier selected step has succeeded
\* and no runner is in flight, and the next thing that happens is that
\* step's invocation (or its failure on a missing key).
C12_FileBeforeTraining ==
    /\ [](\A k \in 1..Len(invocations) :
             invocations[k].step = "train_random_forest"
                => \E f \in files :
                      /\ f.content = RfPath
                      /\ ParamValues(invocations[k], "rf_config")
                            = { [kind |-> "path", dir |-> f.dir, v |-> f.name] })
    /\ [][ files' # files
             => /\ pc = "if" /\ Chain[i] = "train_random_forest"
                /\ InvokedSteps = StepsBefore(i)
                /\ succeeded = Range(StepsBefore(i))
                /\ invocations' = invocations ]_vars
    /\ [][ pc = "call"
             => \/ /\ pc' = "running"
                   /\ InvokedSteps' = Append(InvokedSteps, "train_random_forest")
                \/ /\ pc' = "raise"
                   /\ invocations' = invocations ]_vars

C12_Witness ==
    /\ pc = "running" /\ Chain[i] = "train_random_forest"
    /\ Len(invocations) >= 2
    /\ \E f \in files : f.content = RfPath

\* C13: while a runner invocation is in flight the scratch directory
\* exists: it is created before the first invocation and it is removed only
\* once the if-chain has been left.
C13_WorkspaceContainsRuns ==
    /\ pc = "running" => tmp_dir = "exists"
    /\ invocations # << >> => tmp_dir # "none"
    /\ tmp_dir = "removed" => pc \in { "return", "propagate", "done" }

C13_Witness ==
    /\ pc = "running" /\ tmp_dir = "exists"
    /\ Len(invocations) >= 2

\* the grouping identity: both environment variables, assigned once each
GroupIdentity == << "WANDB_PROJECT", "WANDB_RUN_GROUP" >>

\* C14: each variable of the grouping identity is assigned at most once;
\* once lines 44-45 have been passed without error both are assigned, and
\* this is so before the first runner invocation, after which they are not
\* assigned again.
C14_GroupIdentityOnce ==
    /\ [](/\ \A a, b \in 1..Len(environ) : environ[a] = environ[b] => a = b
          /\ (pc # "env" /\ error.at \notin { "main.project_name",
                                               "main.experiment_name" })
                => environ = GroupIdentity
          /\ invocations # << >> => environ = GroupIdentity)
    /\ [][ pc # "env" => environ' = environ ]_vars

C14_Witness ==
    /\ pc = "running" /\ Len(invocations) = 1
    /\ environ = << "WANDB_PROJECT", "WANDB_RUN_GROUP" >>

\* the steps whose runner was invoked and has neither returned nor failed
InFlight ==
    { s \in Range(InvokedSteps) :
        s \notin succeeded /\ ~(error.kind = "StepError" /\ error.at = s) }

\* C15: at most one runner invocation is in flight, and a runner is invoked
\* only when none is in flight and every selected step earlier in the order
\* has succeeded.
C15_Sequential ==
    /\ [](/\ Cardinality(InFlight) <= 1
          /\ InFlight = IF pc = "running" THEN { Chain[i] } ELSE {})
    /\ [][ invocations' # invocations
             => /\ InFlight = {}
                /\ Range(StepsBefore(i)) \subseteq succeeded
                /\ InFlight' = { Chain[i] } ]_vars

C15_Witness ==
    /\ pc = "running"
    /\ Len(invocations) = 3 /\ Cardinality(succeeded) = 2

\* C16: when a step fails, and from then on, the set of succeeded steps and
\* the artifacts they registered do not change: every selected step before
\* the failed one stays succeeded with its artifacts.
C16_NoRollback ==
    /\ [](error.kind = "StepError"
            => /\ succeeded = Range(StepsBefore(i))
               /\ artifacts = UNION { Produced(invocations[k]) :
                                        k \in 1..(Len(invocations) - 1) })
    /\ [][ (error.kind = "StepError" \/ error'.kind = "StepError")
             => /\ succeeded' = succeeded
                /\ artifacts' = artifacts ]_vars

C16_Witness ==
    /\ Finished /\ error.kind = "StepError"
    /\ Cardinality(succeeded) = 2 /\ artifacts # {}

\* C17: no step's runner is invoked twice in a run, also when its
\* identifier occurs several times among the tokens.
C17_AtMostOnce ==
    \A a, b \in 1..Len(invocations) :
        invocations[a].step = invocations[b].step => a = b

C17_Witness ==
    /\ Finished /\ error = NoError
    /\ config.steps = << "download", ",", "download" >>
    /\ InvokedSteps = << "download" >>

\* C18: with the selection "all" the runner of test_regression_model is
\* never invoked; it is invoked only when its identifier is a token of the
\* expression, and then last, when every other selected step has succeeded.
C18_TestModelOnlyExplicit ==
    /\ config.steps = Str("all")
          => \A k \in 1..Len(invocations) :
                invocations[k].step # "test_regression_model"
    /\ \A k \in 1..Len(invocations) :
          invocations[k].step = "test_regression_model"
             => /\ In(Str("test_regression_model"), TokensOf(config.steps))
                /\ k = Len(invocations)
                /\ \A j \in 1..Len(Chain) :
                      (Selected(j) /\ Chain[j] # "test_regression_model")
                         => Chain[j] \in succeeded

C18_Witness ==
    /\ Finished /\ error = NoError
    /\ config.steps = << "test_regression_model", ",", "download" >>
    /\ InvokedSteps = << "download", "test_regression_model" >>

\* C19: provided every runner invocation returns or fails, every run
\* ends (completed or aborted) with the scratch directory released, after
\* at most one invocation of each step of the chain.
C19_Terminates ==
    <>(/\ Finished
       /\ tmp_dir # "exists"
       /\ Len(invocations) <= Len(Chain)
       /\ \A k \in 1..Len(Chain) :
             Cardinality({ j \in 1..Len(invocations) :
                             invocations[j].step = Chain[k] }) <= 1)

C19_Witness ==
    /\ Finished /\ tmp_dir = "removed"
    /\ error = NoError /\ Len(invocations) = 2

====
